---- MODULE Spec2Model ----
(***************************************************************************)
(* Model of MVKDE (Python/ogusa/KernelEstimator.py): one call of the       *)
(* routine is a straight-line program; every statement group is an action  *)
(* and pc is the position in the body.                                     *)
(*                                                                         *)
(* Numbers are exact: a proportion is an integer number of 1/Unit, a grid  *)
(* coordinate is a numerator over the denominator S-1 (J-1), a scaled      *)
(* density is a pair num/den, and den = 0 stands for numpy's nan.          *)
(* The library calls are modelled by what they do:                         *)
(*  - np.random.multinomial is numpy's loop of binomial draws; the last    *)
(*    bin takes what is left, only sum(pvals[:-1]) > 1 is rejected;        *)
(*  - gaussian_kde inverts the covariance of the sample and raises on a    *)
(*    singular one; the kernel exp(-e) is 2^(ExpCut - floor(e)), and 0     *)
(*    (underflow) once e exceeds ExpCut;                                   *)
(*  - np.mgrid with a complex step n*j gives n points, both ends included  *)
(*    for n > 1 and the start alone for n = 1.                             *)
(* The sample has NDraws pseudo-observations where the code has 70000.     *)
(***************************************************************************)
EXTENDS Integers, Sequences, FiniteSets, TLC

\* ---- bounds of the model ------------------------------------------------
\* the requested grid is at most MaxS by MaxJ
MaxS == 3
MaxJ == 2
\* the proportion matrix is at most MaxRows by MaxCols, with at most MaxCells
\* cells
MaxRows == 3
MaxCols == 2
MaxCells == 6
\* a proportion is a multiple of 1/Unit
Unit == 3
\* the size of the multinomial sample
NDraws == 4
\* the energy beyond which the kernel underflows to 0
ExpCut == 10

\* ---- program constants ----------------------------------------------------
\* j = 18 and k = 1, the values of the first age and ability bin
AgeStart == 18
AbilityStart == 1
\* 1/bandwidth^2 for the default bandwidth = .25
BwInvSq == 16

None == "None"
\* the value None of the argument proportion_matrix
NoMatrix == << >>

VARIABLES
  S, J, filename, plot,        \* arguments
  proportion_matrix,           \* argument, then the resolved matrix
  proportion_matrix_income, proportion_matrix_age,
  age_probs, income_probs,
  age_frequency, income_frequency,
  age_mesh, income_mesh,
  j, k, it,                    \* loop counters; it = position in the for loop
  freq_mat, density, range, coords,
  estimator, estimator_scaled,
  pc, error, plotted,
  seeded, rng, seed, call, first_result, arg_matrix

vars == <<S, J, filename, plot, proportion_matrix, proportion_matrix_income,
          proportion_matrix_age, age_probs, income_probs, age_frequency,
          income_frequency, age_mesh, income_mesh, j, k, it, freq_mat,
          density, range, coords, estimator, estimator_scaled, pc, error,
          plotted, seeded, rng, seed, call, first_result, arg_matrix>>

\* ---- helpers ----------------------------------------------------------------
RECURSIVE SumSeq(_)
SumSeq(s) == IF s = << >> THEN 0 ELSE Head(s) + SumSeq(Tail(s))

RECURSIVE Pow(_, _)
Pow(b, e) == IF e = 0 THEN 1 ELSE b * Pow(b, e - 1)

MinOf(s) == CHOOSE x \in {s[n] : n \in 1..Len(s)} :
              \A y \in {s[n] : n \in 1..Len(s)} : x <= y
MaxOf(s) == CHOOSE x \in {s[n] : n \in 1..Len(s)} :
              \A y \in {s[n] : n \in 1..Len(s)} : x >= y

Rows(m) == Len(m)
Cols(m) == Len(m[1])

\* the shapes of the proportion matrices: at most MaxRows by MaxCols and at
\* most MaxCells cells
Shapes == {sh \in (1..MaxRows) \X (1..MaxCols) : sh[1] * sh[2] <= MaxCells}

\* the proportion matrices: every cell is empty or holds the mass 1/Unit
Matrices == UNION {[1..sh[1] -> [1..sh[2] -> {0, 1}]] : sh \in Shapes}

\* the file system seen by np.loadtxt: one readable comma-delimited file
FileNames == {"data.txt", "missing.txt"}
FileContents == <<<<1, 0>>, <<0, 1>>, <<1, 0>>>>

\* a load that falls back to the data file when no file name is given
LoadTxtDefault(f) == IF f \in {"data.txt", None} THEN FileContents ELSE "raise"

\* np.loadtxt(filename, delimiter=','): None or an unreadable file raises
LoadTxt(f) == IF f = "data.txt" THEN FileContents ELSE "raise"

\* np.sum(m, axis=0): column sums; np.sum(m, axis=1): row sums
SumAxis0(m) == [c \in 1..Cols(m) |-> SumSeq([r \in 1..Rows(m) |-> m[r][c]])]
SumAxis1(m) == [r \in 1..Rows(m) |-> SumSeq(m[r])]

\* ---- str(S)+'j' and complex(...) (lines 96-97) ------------------------------
DigitChars == <<"0", "1", "2", "3", "4", "5", "6", "7", "8", "9">>

\* str(n) for a nonnegative int: its decimal digits, most significant first
RECURSIVE Str(_)
Str(n) == IF n < 10 THEN <<DigitChars[n + 1]>>
          ELSE Append(Str(n \div 10), DigitChars[(n % 10) + 1])

DigitValue(ch) == (CHOOSE d \in 1..10 : DigitChars[d] = ch) - 1

\* complex(text): text is digits followed by 'j'; the result is the imaginary
\* part (the real part is 0)
RECURSIVE ParseDigits(_, _)
ParseDigits(t, acc) == IF t = << >> THEN acc
                       ELSE ParseDigits(Tail(t), 10 * acc + DigitValue(Head(t)))

Complex(text) == ParseDigits(SubSeq(text, 1, Len(text) - 1), 0)

Mesh(n) == Complex(Append(Str(n), "j"))

\* ---- np.random.multinomial (lines 92-93) -------------------------------------
\* one binomial(n, p/Sum) variate taken from the generator's next output u
Binomial(n, p, Sum, u) == IF p = 0 THEN 0
                          ELSE IF p >= Sum THEN n
                          ELSE u % (n + 1)

\* a variate that also depends on state outside the generator
NextVariateUnseeded(g) == (Head(g) + call) % (NDraws + 1)

\* the next output of the ambient generator whose state is the stream g
NextVariate(g) == Head(g)

\* the loop of numpy's multinomial over the first d-1 bins; the last bin
\* takes what is left of the n draws
RECURSIVE MultinomialLoop(_, _, _, _, _, _)
MultinomialLoop(pvals, jj, dn, Sum, g, acc) ==
  IF jj > Len(pvals) - 1 \/ dn <= 0
  THEN [counts |-> [x \in 1..Len(pvals) |->
                      IF x <= Len(acc) THEN acc[x]
                      ELSE IF x = Len(pvals) /\ dn > 0 THEN dn ELSE 0],
        rng |-> g]
  ELSE LET c == Binomial(dn, pvals[jj], Sum, NextVariate(g))
       IN MultinomialLoop(pvals, jj + 1, dn - c, Sum - pvals[jj], Tail(g),
                          Append(acc, c))

\* numpy rejects the vector when sum(pvals[:-1]) > 1
PvalsRejected(pvals) == SumSeq(SubSeq(pvals, 1, Len(pvals) - 1)) > Unit

Multinomial(n, pvals, g) == MultinomialLoop(pvals, 1, n, Unit, g, << >>)

\* ---- the expansion loops (lines 101-105, 109-113) ----------------------------
\* the value incremented before it is used
OnesShifted(i, value) == [x \in 1..i |-> value + 1]

\* np.ones(i) * value
Ones(i, value) == [x \in 1..i |-> value]

\* ---- gaussian_kde (line 116) --------------------------------------------------
Col(m, c) == [r \in 1..Len(m) |-> m[r][c]]
SumSq(s) == SumSeq([x \in 1..Len(s) |-> s[x] * s[x]])
SumProd(s, t) == SumSeq([x \in 1..Len(s) |-> s[x] * t[x]])

\* n*(n-1) times the sample covariance of the dataset (np.cov), exactly
Scatter(data) ==
  LET n == Len(data)
      x == Col(data, 1)
      y == Col(data, 2)
  IN [n |-> n,
      xx |-> n * SumSq(x) - SumSeq(x) * SumSeq(x),
      yy |-> n * SumSq(y) - SumSeq(y) * SumSeq(y),
      xy |-> n * SumProd(x, y) - SumSeq(x) * SumSeq(y),
      dataset |-> data]

Det(d) == d.xx * d.yy - d.xy * d.xy

\* a check that only sees a sample collapsed along both axes
IsSingularBothAxes(d) == d.xx = 0 /\ d.yy = 0

\* linalg.inv of the covariance raises LinAlgError on a singular matrix
IsSingular(d) == Det(d) = 0

\* ---- np.mgrid (line 119) --------------------------------------------------------
\* denominator of the grid coordinates: the step is (stop-start)/(n-1) for
\* n > 1 and 1 for n = 1
GridDen(n) == IF n > 1 THEN n - 1 ELSE 1

\* a grid running from stop down to start
GridPointSwapped(start, stop, n, a) ==
  IF n > 1 THEN stop * (n - 1) + a * (start - stop) ELSE stop + a

\* numerator (over GridDen(n)) of grid point number a (0-based) of n points
\* from start to stop
GridPoint(start, stop, n, a) ==
  IF n > 1 THEN start * (n - 1) + a * (stop - start) ELSE start + a

\* coords: the raveled agei and incomei stacked, row-major over [age, ability]
Coords(r, ns, nj) ==
  [p \in 1..(ns * nj) |->
     <<GridPoint(r.age_min, r.age_max, ns, (p - 1) \div nj),
       GridPoint(r.income_min, r.income_max, nj, (p - 1) % nj)>>]

\* ---- density(coords) (line 121) ---------------------------------------------------
\* floor of the energy (d' inv(cov) d)/2 of grid point g against data point q:
\* inv(cov) = n(n-1)/bandwidth^2 * adj(scatter)/det(scatter)
Energy(d, g, q, ns, nj) ==
  LET da == GridDen(ns)
      di == GridDen(nj)
      dx == g[1] - q[1] * da
      dy == g[2] - q[2] * di
      quad == d.yy * dx * dx * di * di - 2 * d.xy * dx * dy * da * di
              + d.xx * dy * dy * da * da
  IN (BwInvSq * d.n * (d.n - 1) * quad) \div (2 * Det(d) * da * da * di * di)

\* exp(-e) in units of 2^-ExpCut: 1 at e = 0, decreasing, and exactly 0
\* (underflow) beyond the cut
Kernel(e) == IF e > ExpCut THEN 0 ELSE Pow(2, ExpCut - e)

\* the kernel sum at one grid point (the common factor 1/norm_factor is left
\* out: it cancels in line 122)
DensityAt(d, g, ns, nj) ==
  SumSeq([q \in 1..Len(d.dataset) |-> Kernel(Energy(d, g, d.dataset[q], ns, nj))])

\* the evaluated densities reshaped to [J, S]
EvaluateTransposed(d, cs, ns, nj) ==
  [a \in 1..nj |-> [b \in 1..ns |-> DensityAt(d, cs[(a - 1) * ns + b], ns, nj)]]

\* density(coords).reshape(agei.shape)
Evaluate(d, cs, ns, nj) ==
  [a \in 1..ns |-> [b \in 1..nj |-> DensityAt(d, cs[(a - 1) * nj + b], ns, nj)]]

\* np.sum(estimator)
Total(m) == SumSeq([a \in 1..Len(m) |-> SumSeq(m[a])])

\* the grid divided by its largest entry instead of its total
ScaledByMax(m) ==
  [a \in 1..Len(m) |-> [b \in 1..Len(m[a]) |->
     [num |-> m[a][b], den |-> MaxOf([x \in 1..Len(m) |-> MaxOf(m[x])])]]]

\* estimator/float(np.sum(estimator)); den = 0 stands for the nan that numpy
\* produces for 0/0
Scaled(m) == [a \in 1..Len(m) |-> [b \in 1..Len(m[a]) |->
                [num |-> m[a][b], den |-> Total(m)]]]

\* ---- the call ---------------------------------------------------------------------
\* the generator states a caller can seed before a call on the matrix m: a
\* state is given by the outputs that the two draws of the call read
Seeds(m) == [1..((Rows(m) - 1) + (Cols(m) - 1)) -> 0..NDraws]

NoDensity == [n |-> 0, xx |-> 0, yy |-> 0, xy |-> 0, dataset |-> << >>]
NoRange == [age_min |-> 0, income_min |-> 0, age_max |-> 0, income_max |-> 0]

\* the states the ambient generator can be in at a draw over pvals: the state
\* the caller has put it in and the draws so far have left, or else any state,
\* given by the outputs that the draw reads
GeneratorStates(pvals) ==
  IF seeded THEN {rng} ELSE [1..(Len(pvals) - 1) -> 0..NDraws]

\* the locals of a call before its first statement
Locals ==
  /\ proportion_matrix_income = << >> /\ proportion_matrix_age = << >>
  /\ age_probs = << >> /\ income_probs = << >>
  /\ age_frequency = << >> /\ income_frequency = << >>
  /\ age_mesh = 0 /\ income_mesh = 0
  /\ j = 0 /\ k = 0 /\ it = 0
  /\ freq_mat = << >> /\ density = NoDensity /\ range = NoRange
  /\ coords = << >> /\ estimator = << >> /\ estimator_scaled = << >>
  /\ error = None /\ plotted = FALSE

\* the arguments of a call
Arguments ==
  /\ S \in 1..MaxS /\ J \in 1..MaxJ
  /\ plot \in BOOLEAN
  /\ arg_matrix = proportion_matrix
  /\ call = 1 /\ first_result = << >>
  /\ pc = "load"
  /\ Locals

\* a call made with the ambient generator in a state the caller does not know
Init ==
  /\ \/ proportion_matrix \in Matrices /\ filename = None
     \/ proportion_matrix = NoMatrix /\ filename \in {None} \cup FileNames
  /\ seeded = FALSE /\ seed = << >> /\ rng = << >>
  /\ Arguments

\* proportion matrices whose age marginal is uniform: one cell of mass 1/Unit
\* in every row
UniformAgeMatrices == {m \in Matrices : \A r \in 1..Rows(m) : SumSeq(m[r]) = 1}

\* a call made right after the caller has seeded the generator
InitSeeded ==
  /\ \/ /\ proportion_matrix \in UniformAgeMatrices /\ filename = None
        /\ seed \in Seeds(proportion_matrix)
     \/ /\ proportion_matrix = NoMatrix /\ filename \in {None} \cup FileNames
        /\ seed \in Seeds(FileContents)
  /\ seeded = TRUE /\ rng = seed
  /\ Arguments

args == <<S, J, filename, plot, arg_matrix, seeded, seed, call, first_result>>

\* lines 88-89
Load ==
  /\ pc = "load"
  /\ IF proportion_matrix = NoMatrix
     THEN IF LoadTxt(filename) = "raise"
          THEN /\ pc' = "raised" /\ error' = "DataLoadError"
               /\ UNCHANGED proportion_matrix
          ELSE /\ proportion_matrix' = LoadTxt(filename)
               /\ pc' = "marginals" /\ UNCHANGED error
     ELSE /\ pc' = "marginals" /\ UNCHANGED <<proportion_matrix, error>>
  /\ UNCHANGED <<args, proportion_matrix_income, proportion_matrix_age,
                 age_probs, income_probs, age_frequency, income_frequency,
                 age_mesh, income_mesh, j, k, it, freq_mat, density, range,
                 coords, estimator, estimator_scaled, plotted, rng>>

\* lines 90-91
Marginals ==
  /\ pc = "marginals"
  /\ proportion_matrix_income' = SumAxis0(proportion_matrix)
  /\ proportion_matrix_age' = SumAxis1(proportion_matrix)
  /\ pc' = "draw_age"
  /\ UNCHANGED <<args, proportion_matrix, age_probs, income_probs,
                 age_frequency, income_frequency, age_mesh, income_mesh, j, k,
                 it, freq_mat, density, range, coords, estimator,
                 estimator_scaled, error, plotted, rng>>

\* line 92
DrawAge ==
  /\ pc = "draw_age"
  /\ IF PvalsRejected(proportion_matrix_age)
     THEN /\ pc' = "raised" /\ error' = "DegenerateMarginalError"
          /\ UNCHANGED <<age_probs, rng>>
     ELSE \E g \in GeneratorStates(proportion_matrix_age) :
            LET m == Multinomial(NDraws, proportion_matrix_age, g)
            IN /\ age_probs' = m.counts
               /\ rng' = IF seeded THEN m.rng ELSE rng
               /\ pc' = "draw_income" /\ UNCHANGED error
  /\ UNCHANGED <<args, proportion_matrix, proportion_matrix_income,
                 proportion_matrix_age, income_probs, age_frequency,
                 income_frequency, age_mesh, income_mesh, j, k, it, freq_mat,
                 density, range, coords, estimator, estimator_scaled, plotted>>

\* line 93
DrawIncome ==
  /\ pc = "draw_income"
  /\ IF PvalsRejected(proportion_matrix_income)
     THEN /\ pc' = "raised" /\ error' = "DegenerateMarginalError"
          /\ UNCHANGED <<income_probs, rng>>
     ELSE \E g \in GeneratorStates(proportion_matrix_income) :
            LET m == Multinomial(NDraws, proportion_matrix_income, g)
            IN /\ income_probs' = m.counts
               /\ rng' = IF seeded THEN m.rng ELSE rng
               /\ pc' = "mesh" /\ UNCHANGED error
  /\ UNCHANGED <<args, proportion_matrix, proportion_matrix_income,
                 proportion_matrix_age, age_probs, age_frequency,
                 income_frequency, age_mesh, income_mesh, j, k, it, freq_mat,
                 density, range, coords, estimator, estimator_scaled, plotted>>

\* lines 94-99
InitMesh ==
  /\ pc = "mesh"
  /\ age_frequency' = << >> /\ income_frequency' = << >>
  /\ age_mesh' = Mesh(S) /\ income_mesh' = Mesh(J)
  /\ j' = AgeStart /\ it' = 1
  /\ pc' = "expand_age"
  /\ UNCHANGED <<args, proportion_matrix, proportion_matrix_income,
                 proportion_matrix_age, age_probs, income_probs, k, freq_mat,
                 density, range, coords, estimator, estimator_scaled, error,
                 plotted, rng>>

\* lines 101-105: one iteration of the age loop
ExpandAge ==
  /\ pc = "expand_age" /\ it <= Len(age_probs)
  /\ age_frequency' = age_frequency \o Ones(age_probs[it], j)
  /\ j' = j + 1 /\ it' = it + 1
  /\ UNCHANGED <<args, proportion_matrix, proportion_matrix_income,
                 proportion_matrix_age, age_probs, income_probs,
                 income_frequency, age_mesh, income_mesh, k, freq_mat, density,
                 range, coords, estimator, estimator_scaled, pc, error,
                 plotted, rng>>

\* line 107, after the age loop has run out
InitIncomeLoop ==
  /\ pc = "expand_age" /\ it > Len(age_probs)
  /\ k' = AbilityStart /\ it' = 1
  /\ pc' = "expand_income"
  /\ UNCHANGED <<args, proportion_matrix, proportion_matrix_income,
                 proportion_matrix_age, age_probs, income_probs, age_frequency,
                 income_frequency, age_mesh, income_mesh, j, freq_mat, density,
                 range, coords, estimator, estimator_scaled, error, plotted,
                 rng>>

\* lines 109-113: one iteration of the ability loop
ExpandIncome ==
  /\ pc = "expand_income" /\ it <= Len(income_probs)
  /\ income_frequency' = income_frequency \o Ones(income_probs[it], k)
  /\ k' = k + 1 /\ it' = it + 1
  /\ UNCHANGED <<args, proportion_matrix, proportion_matrix_income,
                 proportion_matrix_age, age_probs, income_probs, age_frequency,
                 age_mesh, income_mesh, j, freq_mat, density, range, coords,
                 estimator, estimator_scaled, pc, error, plotted, rng>>

\* the ability values stacked in reverse order
VStackTReversed(a, b) == [x \in 1..Len(a) |-> <<a[x], b[Len(b) + 1 - x]>>]

\* the ability values stacked one position late
VStackTRotated(a, b) == [x \in 1..Len(a) |-> <<a[x], b[(x % Len(b)) + 1]>>]

\* np.vstack((a, b)).T: row x pairs a[x] with b[x]
VStackT(a, b) == [x \in 1..Len(a) |-> <<a[x], b[x]>>]

\* line 115, after the ability loop has run out
Stack ==
  /\ pc = "expand_income" /\ it > Len(income_probs)
  /\ freq_mat' = VStackT(age_frequency, income_frequency)
  /\ pc' = "fit"
  /\ UNCHANGED <<args, proportion_matrix, proportion_matrix_income,
                 proportion_matrix_age, age_probs, income_probs, age_frequency,
                 income_frequency, age_mesh, income_mesh, j, k, it, density,
                 range, coords, estimator, estimator_scaled, error, plotted,
                 rng>>

\* line 116
Fit ==
  /\ pc = "fit"
  /\ IF IsSingular(Scatter(freq_mat))
     THEN /\ pc' = "raised" /\ error' = "SingularSampleError"
          /\ UNCHANGED density
     ELSE /\ density' = Scatter(freq_mat)
          /\ pc' = "range" /\ UNCHANGED error
  /\ UNCHANGED <<args, proportion_matrix, proportion_matrix_income,
                 proportion_matrix_age, age_probs, income_probs, age_frequency,
                 income_frequency, age_mesh, income_mesh, j, k, it, freq_mat,
                 range, coords, estimator, estimator_scaled, plotted, rng>>

\* lines 117-118
Range ==
  /\ pc = "range"
  /\ range' = [age_min |-> MinOf(Col(freq_mat, 1)),
               income_min |-> MinOf(Col(freq_mat, 2)),
               age_max |-> MaxOf(Col(freq_mat, 1)),
               income_max |-> MaxOf(Col(freq_mat, 2))]
  /\ pc' = "grid"
  /\ UNCHANGED <<args, proportion_matrix, proportion_matrix_income,
                 proportion_matrix_age, age_probs, income_probs, age_frequency,
                 income_frequency, age_mesh, income_mesh, j, k, it, freq_mat,
                 density, coords, estimator, estimator_scaled, error, plotted,
                 rng>>

\* lines 119-120
Grid ==
  /\ pc = "grid"
  /\ coords' = Coords(range, age_mesh, income_mesh)
  /\ pc' = "evaluate"
  /\ UNCHANGED <<args, proportion_matrix, proportion_matrix_income,
                 proportion_matrix_age, age_probs, income_probs, age_frequency,
                 income_frequency, age_mesh, income_mesh, j, k, it, freq_mat,
                 density, range, estimator, estimator_scaled, error, plotted,
                 rng>>

\* line 121
Estimate ==
  /\ pc = "evaluate"
  /\ estimator' = Evaluate(density, coords, age_mesh, income_mesh)
  /\ pc' = "scale"
  /\ UNCHANGED <<args, proportion_matrix, proportion_matrix_income,
                 proportion_matrix_age, age_probs, income_probs, age_frequency,
                 income_frequency, age_mesh, income_mesh, j, k, it, freq_mat,
                 density, range, coords, estimator_scaled, error, plotted,
                 rng>>

\* line 122
Scale ==
  /\ pc = "scale"
  /\ estimator_scaled' = Scaled(estimator)
  /\ pc' = "plot"
  /\ UNCHANGED <<args, proportion_matrix, proportion_matrix_income,
                 proportion_matrix_age, age_probs, income_probs, age_frequency,
                 income_frequency, age_mesh, income_mesh, j, k, it, freq_mat,
                 density, range, coords, estimator, error, plotted, rng>>

\* lines 123-130: the surface plot, a side effect only
Plot ==
  /\ pc = "plot" /\ plot = TRUE /\ ~plotted
  /\ plotted' = TRUE
  /\ UNCHANGED <<args, proportion_matrix, proportion_matrix_income,
                 proportion_matrix_age, age_probs, income_probs, age_frequency,
                 income_frequency, age_mesh, income_mesh, j, k, it, freq_mat,
                 density, range, coords, estimator, estimator_scaled, pc,
                 error, rng>>

\* line 131
Return ==
  /\ pc = "plot" /\ (plot = TRUE => plotted)
  /\ pc' = "returned"
  /\ UNCHANGED <<args, proportion_matrix, proportion_matrix_income,
                 proportion_matrix_age, age_probs, income_probs, age_frequency,
                 income_frequency, age_mesh, income_mesh, j, k, it, freq_mat,
                 density, range, coords, estimator, estimator_scaled, error,
                 plotted, rng>>

\* the caller puts the generator back to the same seed and calls MVKDE again
\* with the same arguments
CallAgain ==
  /\ pc = "returned" /\ seeded /\ call = 1
  /\ first_result' = estimator_scaled
  /\ call' = 2
  /\ rng' = seed
  /\ proportion_matrix' = arg_matrix
  /\ pc' = "load"
  /\ proportion_matrix_income' = << >> /\ proportion_matrix_age' = << >>
  /\ age_probs' = << >> /\ income_probs' = << >>
  /\ age_frequency' = << >> /\ income_frequency' = << >>
  /\ age_mesh' = 0 /\ income_mesh' = 0
  /\ j' = 0 /\ k' = 0 /\ it' = 0
  /\ freq_mat' = << >> /\ density' = NoDensity /\ range' = NoRange
  /\ coords' = << >> /\ estimator' = << >> /\ estimator_scaled' = << >>
  /\ error' = None /\ plotted' = FALSE
  /\ UNCHANGED <<S, J, filename, plot, arg_matrix, seeded, seed>>

Next ==
  \/ Load \/ Marginals \/ DrawAge \/ DrawIncome \/ InitMesh
  \/ ExpandAge \/ InitIncomeLoop \/ ExpandIncome \/ Stack
  \/ Fit \/ Range \/ Grid \/ Estimate \/ Scale \/ Plot \/ Return

NextSeeded == Next \/ CallAgain

Spec == Init /\ [][Next]_vars

SpecSeeded == InitSeeded /\ [][NextSeeded]_vars

TypeOK == pc \in {"load", "marginals", "draw_age", "draw_income", "mesh",
                  "expand_age", "expand_income", "fit", "range", "grid",
                  "evaluate", "scale", "plot", "returned", "raised"}

\* ---- properties ---------------------------------------------------------------------
Count(s, v) == Cardinality({x \in 1..Len(s) : s[x] = v})
Values(s) == {s[x] : x \in 1..Len(s)}

\* the positions of the body after both expansion loops have run out
AfterLoops == {"fit", "range", "grid", "evaluate", "scale", "plot", "returned"}
\* the positions of the body after the grid has been built
AfterGrid == {"evaluate", "scale", "plot", "returned"}

Expanded == pc \in AfterLoops \/ (pc = "raised" /\ error = "SingularSampleError")

\* C1: a call that returns hands back a matrix of exactly S rows and J
\* columns, whatever the shape of the proportion matrix it was given.
C1_OutputShape ==
  pc = "returned" =>
    /\ Len(estimator_scaled) = S
    /\ \A a \in 1..S : Len(estimator_scaled[a]) = J

C1_Witness ==
  /\ pc = "returned"
  /\ Rows(proportion_matrix) # S /\ Cols(proportion_matrix) # J
  /\ Len(estimator_scaled) = S /\ Len(estimator_scaled[1]) = J

PositiveMarginals ==
  /\ \A r \in 1..Len(proportion_matrix_age) : proportion_matrix_age[r] > 0
  /\ \A c \in 1..Len(proportion_matrix_income) : proportion_matrix_income[c] > 0

\* the sum of the entries of a scaled matrix is 1: the numerators add up to
\* the common nonzero denominator
SumsToOne(m) ==
  /\ \A a \in 1..Len(m) : \A b \in 1..Len(m[a]) :
        m[a][b].den = m[1][1].den /\ m[a][b].den # 0
  /\ SumSeq([a \in 1..Len(m) |-> SumSeq([b \in 1..Len(m[a]) |-> m[a][b].num])])
       = m[1][1].den

\* C2: for a proportion matrix with positive marginals the returned matrix
\* is the evaluated grid divided cell by cell by the grid's total, so its
\* entries sum to 1.
C2_NormalisedBySum ==
  (pc = "returned" /\ PositiveMarginals) =>
    /\ \A a \in 1..S : \A b \in 1..J :
          /\ estimator_scaled[a][b].num = estimator[a][b]
          /\ estimator_scaled[a][b].den = Total(estimator)
    /\ SumsToOne(estimator_scaled)

C2_Witness ==
  /\ pc = "returned" /\ PositiveMarginals
  /\ S * J > 1
  /\ \E a \in 1..S : \E b \in 1..J :
        estimator[a][b] > 0 /\ estimator[a][b] < Total(estimator)

\* C3: a call with neither proportion_matrix nor filename ends in a
\* DataLoadError at the load, before a marginal is computed or a draw is made.
C3_NoSourceRaises ==
  (arg_matrix = NoMatrix /\ filename = None /\ pc # "load") =>
    /\ pc = "raised" /\ error = "DataLoadError"
    /\ proportion_matrix_age = << >> /\ proportion_matrix_income = << >>
    /\ age_probs = << >> /\ income_probs = << >>

C3_Witness ==
  /\ arg_matrix = NoMatrix /\ filename = None
  /\ pc = "raised" /\ error = "DataLoadError"

AllZero(m) == m # NoMatrix /\ \A r \in 1..Rows(m) : \A c \in 1..Cols(m) : m[r][c] = 0

\* C4: a call with an all-zero proportion matrix ends in a
\* DegenerateMarginalError raised before the zero marginal is used as the
\* probability vector of a multinomial draw, and returns no matrix.
C4_AllZeroRaisesDegenerate ==
  (AllZero(proportion_matrix) /\ pc \notin {"load", "marginals", "draw_age"}) =>
    /\ pc = "raised" /\ error = "DegenerateMarginalError"
    /\ age_probs = << >> /\ income_probs = << >>

AxisConstant(m) ==
  \/ Cardinality(Values(Col(m, 1))) = 1
  \/ Cardinality(Values(Col(m, 2))) = 1

\* C5: once the pseudo-observations are stacked and all of them have the same
\* value along an axis, the kernel fit raises a SingularSampleError and the
\* call returns no matrix.
C5_CollapsedAxisRaises ==
  (freq_mat # << >> /\ AxisConstant(freq_mat) /\ pc # "fit") =>
    /\ pc = "raised" /\ error = "SingularSampleError"
    /\ estimator = << >> /\ estimator_scaled = << >>

C5_Witness ==
  /\ pc = "raised" /\ error = "SingularSampleError"
  /\ Len(age_probs) > 1 /\ Len(income_probs) > 1
  /\ Cardinality(Values(Col(freq_mat, 1))) = 1
  /\ Cardinality(Values(Col(freq_mat, 2))) > 1

C8_ExpansionMatchesCounts ==
  Expanded =>
    /\ \A x \in 1..Len(age_probs) :
          Count(age_frequency, AgeStart + x - 1) = age_probs[x]
    /\ \A x \in 1..Len(income_probs) :
          Count(income_frequency, AbilityStart + x - 1) = income_probs[x]
    /\ Values(age_frequency) \subseteq
          {AgeStart + x - 1 : x \in 1..Len(age_probs)}
    /\ Values(income_frequency) \subseteq
          {AbilityStart + x - 1 : x \in 1..Len(income_probs)}
    /\ Len(age_frequency) = NDraws /\ Len(income_frequency) = NDraws

C8_Witness ==
  /\ Expanded
  /\ Len(age_probs) # Len(income_probs)
  /\ Cardinality(Values(age_frequency)) > 1
  /\ Cardinality(Values(income_frequency)) > 1
  /\ Len(age_frequency) = NDraws /\ Len(income_frequency) = NDraws

\* the smallest and largest value whose bin has a positive drawn count
MinDrawn(probs, start) ==
  start - 1 + MinOf([x \in 1..Len(probs) |-> IF probs[x] > 0 THEN x ELSE Len(probs) + 1])
MaxDrawn(probs, start) ==
  start - 1 + MaxOf([x \in 1..Len(probs) |-> IF probs[x] > 0 THEN x ELSE 0])

\* grid point a (1-based) of the age axis and b of the ability axis, as
\* numerators over GridDen
AgePoint(a) == coords[(a - 1) * J + 1][1]
IncomePoint(b) == coords[b][2]

GridIsProduct ==
  /\ Len(coords) = S * J
  /\ \A a \in 1..S : \A b \in 1..J :
        coords[(a - 1) * J + b] = <<AgePoint(a), IncomePoint(b)>>
  /\ Cardinality(Values(coords)) = S * J
  /\ Len(estimator) \in {0, S}

EvenlySpaced ==
  /\ \A a \in 1..(S - 2) : AgePoint(a + 2) - AgePoint(a + 1) = AgePoint(a + 1) - AgePoint(a)
  /\ \A b \in 1..(J - 2) :
        IncomePoint(b + 2) - IncomePoint(b + 1) = IncomePoint(b + 1) - IncomePoint(b)

\* C9 as stated: the grid has S evenly spaced age points from the smallest to
\* the largest age value of the sample and J evenly spaced ability points from
\* the smallest to the largest ability value, first and last point on the
\* ends, the ends being those of the bins with a positive count, and every
\* grid point is evaluated once.
C9_GridSpansRange ==
  pc \in AfterGrid =>
    /\ GridIsProduct /\ EvenlySpaced
    /\ AgePoint(1) = MinDrawn(age_probs, AgeStart) * GridDen(S)
    /\ AgePoint(S) = MaxDrawn(age_probs, AgeStart) * GridDen(S)
    /\ IncomePoint(1) = MinDrawn(income_probs, AbilityStart) * GridDen(J)
    /\ IncomePoint(J) = MaxDrawn(income_probs, AbilityStart) * GridDen(J)

\* C9 amended: as C9, but the last point of an axis is the largest value
\* only when the axis has at least two points; an axis of one point has its
\* only point on the smallest value.
C9_GridSpansRangeAmended ==
  pc \in AfterGrid =>
    /\ GridIsProduct /\ EvenlySpaced
    /\ AgePoint(1) = MinDrawn(age_probs, AgeStart) * GridDen(S)
    /\ S >= 2 => AgePoint(S) = MaxDrawn(age_probs, AgeStart) * GridDen(S)
    /\ IncomePoint(1) = MinDrawn(income_probs, AbilityStart) * GridDen(J)
    /\ J >= 2 => IncomePoint(J) = MaxDrawn(income_probs, AbilityStart) * GridDen(J)

C9_Witness ==
  /\ pc \in AfterGrid /\ S = 3 /\ J = 2
  /\ \E x \in 1..Len(age_probs) : age_probs[x] = 0
  /\ AgePoint(1) = MinDrawn(age_probs, AgeStart) * 2
  /\ AgePoint(3) = MaxDrawn(age_probs, AgeStart) * 2
  /\ 2 * AgePoint(2) = AgePoint(1) + AgePoint(3)

\* C10: the stacked sample is rank-paired: down the rows of freq_mat neither
\* the age nor the ability value ever decreases.
C10_RankPaired ==
  \A a \in 1..Len(freq_mat) : \A b \in 1..Len(freq_mat) :
    a < b => freq_mat[a][1] <= freq_mat[b][1] /\ freq_mat[a][2] <= freq_mat[b][2]

C10_Witness ==
  /\ Len(freq_mat) = NDraws
  /\ Cardinality(Values(Col(freq_mat, 1))) > 1
  /\ Cardinality(Values(Col(freq_mat, 2))) > 1
  /\ freq_mat[1] = <<MinOf(age_frequency), MinOf(income_frequency)>>
  /\ freq_mat[NDraws] = <<MaxOf(age_frequency), MaxOf(income_frequency)>>

====
